---- MODULE Spec2Model ----
(***************************************************************************)
(* State-machine model of the Zero-To-GenAI example scripts:               *)
(*   03-API-Interactions/simple_chatbot.py  (terminal chatbot with memory) *)
(*   03-API-Interactions/start.py           (one-shot API call)            *)
(*   05-Projects/web_chatbot.py             (Streamlit streaming chatbot)  *)
(*   05-Projects/cli_researcher.py          (research CLI, file export)    *)
(*                                                                         *)
(* Text is a sequence of one-character strings, so that strip(), lower(),  *)
(* re.sub(), replace() and slicing are computed character by character.    *)
(* Python's None is the one-element sequence None below, which no text     *)
(* equals because its element is not a single character.                   *)
(***************************************************************************)
EXTENDS Integers, Sequences, FiniteSets, TLC

VARIABLES
    script,               \* which entry point this run executes
    api_key,              \* OPENAI_API_KEY after load_dotenv(): "absent", "empty" or "set"
    pc,                   \* position of the running script
    conversation_history, \* simple_chatbot.py: the module-level list
    messages,             \* web_chatbot.py: st.session_state.messages
    full_response,        \* web_chatbot.py: accumulator of the streamed reply
    chunks,               \* web_chatbot.py: delta.content of every chunk received in this stream
    user_input,           \* simple_chatbot.py: user_input; web_chatbot.py: prompt
    request,              \* the `messages` argument of the latest completion call
    calls,                \* number of completion calls made
    result,               \* outcome of the latest exchange, as the caller sees it
    nOk,                  \* exchanges that returned
    nFail,                \* exchanges that raised
    exit_code,            \* -1 while running, else the process exit status
    reported,             \* tags of the error diagnostics shown so far
    topic,                \* cli_researcher.py: args.topic
    bullets,              \* cli_researcher.py: args.bullets
    print_only,           \* cli_researcher.py: args.print_only
    output_dir,           \* cli_researcher.py: args.output on disk: "missing", "present", "created"
    safe_name,            \* cli_researcher.py: value returned by sanitize_filename
    files                 \* cli_researcher.py: names of the files written

vars == <<script, api_key, pc, conversation_history, messages, full_response,
          chunks, user_input, request, calls, result, nOk, nFail, exit_code,
          reported, topic, bullets, print_only, output_dir, safe_name, files>>

chatVars == <<conversation_history, messages, full_response, chunks, user_input,
              request, calls, result, nOk, nFail>>

researchVars == <<topic, bullets, print_only, output_dir, safe_name, files>>

----------------------------------------------------------------------------
(* Bounds *)

MaxExchanges == 2      \* chat() / prompt submissions per session
MaxChunks == 2         \* chunks per stream
MaxPad == 51           \* filler characters in a generated topic
MaxCore == 2           \* freely chosen characters in a generated topic

----------------------------------------------------------------------------
(* Text *)

None == <<"None">>

Whitespace == {" ", "\t"}

\* variant: the line is used as entered
StripNothing(s) == s

\* str.strip()
Strip(s) ==
    LET keep == {i \in 1..Len(s) : s[i] \notin Whitespace}
        lo == CHOOSE i \in keep : \A j \in keep : i <= j
        hi == CHOOSE i \in keep : \A j \in keep : i >= j
    IN IF keep = {} THEN <<>> ELSE SubSeq(s, lo, hi)

UpperAlpha == <<"A","B","C","D","E","F","G","H","I","J","K","L","M",
                "N","O","P","Q","R","S","T","U","V","W","X","Y","Z">>

LowerAlpha == <<"a","b","c","d","e","f","g","h","i","j","k","l","m",
                "n","o","p","q","r","s","t","u","v","w","x","y","z">>

LowerChar(c) ==
    IF \E i \in 1..26 : UpperAlpha[i] = c
    THEN LowerAlpha[CHOOSE i \in 1..26 : UpperAlpha[i] = c]
    ELSE c

Lower(s) == [i \in 1..Len(s) |-> LowerChar(s[i])]

Truthy(s) == s # None /\ Len(s) > 0

Turn(role, content) == [role |-> role, content |-> content]

Append2(h, role, content) == Append(h, Turn(role, content))

----------------------------------------------------------------------------
(* Inputs the environment can supply *)

Scripts == {"simple_chatbot", "web_chatbot", "cli_researcher", "start"}

KeyStates == {"absent", "empty", "set"}

\* lines entered at the terminal prompt (before strip())
RawInputs ==
    { <<>>, <<" ">>, <<"\t", " ">>, <<"a">>, <<" ", "b", " ">>,
      <<"q">>, <<"Q", " ">>, <<"q", "u", "i", "t">>, <<"E", "x", "i", "t">>,
      <<"h", "i", "s", "t", "o", "r", "y">>,
      <<" ", "H", "i", "s", "t", "o", "r", "y">> }

\* what st.chat_input() hands to the script: None, or the submitted text
WebPrompts == { None, <<>>, <<" ">>, <<"a">> }

\* message.content of a completion that returned
ReplyTexts == { None, <<>>, <<"r">> }

\* delta.content of one streamed chunk
ChunkTexts == { None, <<"r">>, <<"s">> }

QuitCommands == { <<"q", "u", "i", "t">>, <<"e", "x", "i", "t">>, <<"q">> }

HistoryCommand == <<"h", "i", "s", "t", "o", "r", "y">>

SystemPrompt == <<"S">>

NoResult == [kind |-> "none", value |-> <<>>]

----------------------------------------------------------------------------
(* simple_chatbot.py *)

\* variant: only the empty value is caught
KeyMissingEmptyOnly(key) == key = "empty"

\* `not os.getenv("OPENAI_API_KEY")`: unset or empty
KeyMissing(key) == key # "set"

\* OpenAI() with no api_key argument: raises when the variable is not set
ClientInitRaises(key) == key = "absent"

ChatbotStartup ==
    /\ script = "simple_chatbot"
    /\ pc = "start"
    /\ IF ClientInitRaises(api_key)
       THEN /\ pc' = "exited"
            /\ exit_code' = 1
            /\ reported' = reported \cup {"missing_credential"}
            /\ UNCHANGED conversation_history
       ELSE /\ pc' = "input"
            /\ conversation_history' = <<Turn("system", SystemPrompt)>>
            /\ UNCHANGED <<exit_code, reported>>
    /\ UNCHANGED <<script, api_key, messages, full_response, chunks, user_input,
                   request, calls, result, nOk, nFail>>
    /\ UNCHANGED researchVars

\* the 'history' command evaluates len(msg['content']) for every turn
HistoryDisplayRaises(h) == \E i \in 1..Len(h) : h[i].content = None

\* variant: the user turn is tagged with the wrong role
ChatSendAsSystem(h, text) == Append2(h, "system", text)

\* chat(), lines 68-72: the user turn is appended
ChatSend(h, text) == Append2(h, "user", text)

\* variant: only the newest turn is sent
LatestTurnOnly(h) == <<h[Len(h)]>>

\* chat(), line 78, and web_chatbot.py, line 82: the messages argument of the call
RequestMessages(h) == h

\* one iteration of the while loop of main(), up to the completion call
ReadInput(raw) ==
    /\ script = "simple_chatbot"
    /\ pc = "input"
    /\ LET text == Strip(raw) IN
       /\ user_input' = text
       /\ IF Lower(text) \in QuitCommands
          THEN /\ pc' = "exited"
               /\ exit_code' = 0
               /\ UNCHANGED <<conversation_history, request, calls, reported>>
          ELSE IF ~Truthy(text)
          THEN UNCHANGED <<pc, exit_code, conversation_history, request, calls, reported>>
          ELSE IF Lower(text) = HistoryCommand
          THEN /\ IF HistoryDisplayRaises(conversation_history)
                  THEN /\ pc' = "exited"
                       /\ exit_code' = 1
                       /\ reported' = reported \cup {"TypeError"}
                  ELSE UNCHANGED <<pc, exit_code, reported>>
               /\ UNCHANGED <<conversation_history, request, calls>>
          ELSE /\ nOk + nFail < MaxExchanges
               /\ conversation_history' = ChatSend(conversation_history, text)
               /\ request' = RequestMessages(conversation_history')
               /\ calls' = calls + 1
               /\ pc' = "calling"
               /\ UNCHANGED <<exit_code, reported>>
    /\ UNCHANGED <<script, api_key, messages, full_response, chunks, result, nOk, nFail>>
    /\ UNCHANGED researchVars

\* input() raises KeyboardInterrupt or EOFError
ReadInputEOF ==
    /\ script = "simple_chatbot"
    /\ pc = "input"
    /\ pc' = "exited"
    /\ exit_code' = 0
    /\ UNCHANGED <<script, api_key, reported>>
    /\ UNCHANGED chatVars
    /\ UNCHANGED researchVars

\* variant: the reply is returned but not recorded
ChatReceiveDropped(h, text) == h

\* chat(), lines 82-91: the call returned
ChatReceive(h, text) == Append2(h, "assistant", text)

ChatReturn(text) ==
    /\ script = "simple_chatbot"
    /\ pc = "calling"
    /\ conversation_history' = ChatReceive(conversation_history, text)
    /\ result' = [kind |-> "ok", value |-> text]
    /\ nOk' = nOk + 1
    /\ pc' = "input"
    /\ UNCHANGED <<script, api_key, messages, full_response, chunks, user_input,
                   request, calls, nFail, exit_code, reported>>
    /\ UNCHANGED researchVars

\* variant: the user turn of the failed exchange is taken back
ChatFailedRollback(h) == SubSeq(h, 1, Len(h) - 1)

\* the history after a call that raised: neither chat() (no try block) nor the
\* handler in main(), lines 142-144, touches the list; nor does web_chatbot.py
ChatFailed(h) == h

\* the call raised: chat() lets it through, main() catches and prints it
ChatRaise ==
    /\ script = "simple_chatbot"
    /\ pc = "calling"
    /\ result' = [kind |-> "error", value |-> <<>>]
    /\ nFail' = nFail + 1
    /\ reported' = reported \cup {"error"}
    /\ pc' = "input"
    /\ conversation_history' = ChatFailed(conversation_history)
    /\ UNCHANGED <<script, api_key, messages, full_response,
                   chunks, user_input, request, calls, nOk, exit_code>>
    /\ UNCHANGED researchVars

----------------------------------------------------------------------------
(* web_chatbot.py: Streamlit reruns the script on every interaction *)

\* `"OPENAI_API_KEY" not in os.environ`
KeyNotInEnviron(key) == key = "absent"

\* lines 34-50 of the first run: credential check, then session state
WebStartup ==
    /\ script = "web_chatbot"
    /\ pc = "start"
    /\ IF KeyNotInEnviron(api_key)
       THEN /\ pc' = "stopped"
            /\ reported' = reported \cup {"missing_credential"}
            /\ UNCHANGED messages
       ELSE /\ pc' = "idle"
            /\ messages' = <<Turn("system", SystemPrompt)>>
            /\ UNCHANGED reported
    /\ UNCHANGED <<script, api_key, conversation_history, full_response, chunks,
                   user_input, request, calls, result, nOk, nFail, exit_code>>
    /\ UNCHANGED researchVars

\* line 72: the user turn is appended
WebSend(h, prompt) == Append2(h, "user", prompt)

\* lines 66-84: a rerun whose st.chat_input() value is prompt
WebPrompt(prompt) ==
    /\ script = "web_chatbot"
    /\ pc = "idle"
    /\ user_input' = prompt
    /\ IF Truthy(prompt)
       THEN /\ nOk + nFail < MaxExchanges
            /\ messages' = WebSend(messages, prompt)
            /\ full_response' = <<>>
            /\ chunks' = <<>>
            /\ request' = RequestMessages(messages')
            /\ calls' = calls + 1
            /\ pc' = "streaming"
       ELSE UNCHANGED <<messages, full_response, chunks, request, calls, pc>>
    /\ UNCHANGED <<script, api_key, conversation_history, result, nOk, nFail,
                   exit_code, reported>>
    /\ UNCHANGED researchVars

\* variant: the fragment is put in front
AccumulatePrepend(acc, content) == IF content # None THEN content \o acc ELSE acc

\* lines 87-88: the accumulator after one chunk
Accumulate(acc, content) == IF content # None THEN acc \o content ELSE acc

\* lines 86-89: one iteration of the for loop
WebChunk(content) ==
    /\ script = "web_chatbot"
    /\ pc = "streaming"
    /\ Len(chunks) < MaxChunks
    /\ chunks' = Append(chunks, content)
    /\ full_response' = Accumulate(full_response, content)
    /\ UNCHANGED <<script, api_key, pc, conversation_history, messages, user_input,
                   request, calls, result, nOk, nFail, exit_code, reported>>
    /\ UNCHANGED researchVars

\* variant: the reply is written over the last turn
WebCommitOverwrite(h, acc) == [h EXCEPT ![Len(h)] = Turn("assistant", acc)]

\* line 94: the turn committed once the stream is exhausted
WebCommit(h, acc) == Append2(h, "assistant", acc)

\* lines 91-94: the stream is exhausted; the run of the script ends and its
\* locals go with it
WebStreamEnd ==
    /\ script = "web_chatbot"
    /\ pc = "streaming"
    /\ messages' = WebCommit(messages, full_response)
    /\ result' = [kind |-> "ok", value |-> full_response]
    /\ nOk' = nOk + 1
    /\ pc' = "idle"
    /\ full_response' = <<>>
    /\ chunks' = <<>>
    /\ UNCHANGED <<script, api_key, conversation_history,
                   user_input, request, calls, nFail, exit_code, reported>>
    /\ UNCHANGED researchVars

\* create() or the iteration raises: the run of the script is aborted
WebStreamRaise ==
    /\ script = "web_chatbot"
    /\ pc = "streaming"
    /\ result' = [kind |-> "error", value |-> <<>>]
    /\ nFail' = nFail + 1
    /\ reported' = reported \cup {"error"}
    /\ pc' = "idle"
    /\ messages' = ChatFailed(messages)
    /\ full_response' = <<>>
    /\ chunks' = <<>>
    /\ UNCHANGED <<script, api_key, conversation_history,
                   user_input, request, calls, nOk, exit_code>>
    /\ UNCHANGED researchVars

----------------------------------------------------------------------------
(* start.py *)

StartRequest == <<Turn("system", SystemPrompt), Turn("user", <<"H">>)>>

\* lines 24-44
StartRun ==
    /\ script = "start"
    /\ pc = "start"
    /\ IF KeyMissing(api_key)
       THEN /\ pc' = "exited"
            /\ exit_code' = 1
            /\ reported' = reported \cup {"missing_credential"}
            /\ UNCHANGED <<request, calls>>
       ELSE /\ pc' = "calling"
            /\ request' = StartRequest
            /\ calls' = calls + 1
            /\ UNCHANGED <<exit_code, reported>>
    /\ UNCHANGED <<script, api_key, conversation_history, messages, full_response,
                   chunks, user_input, result, nOk, nFail>>
    /\ UNCHANGED researchVars

\* lines 46-51: the response is printed, or the exception is caught and printed
StartFinish(outcome) ==
    /\ script = "start"
    /\ pc = "calling"
    /\ result' = outcome
    /\ reported' = IF outcome.kind = "ok" THEN reported ELSE reported \cup {"error"}
    /\ pc' = "exited"
    /\ exit_code' = 0
    /\ UNCHANGED <<script, api_key, conversation_history, messages, full_response,
                   chunks, user_input, request, calls, nOk, nFail>>
    /\ UNCHANGED researchVars

----------------------------------------------------------------------------
(* cli_researcher.py *)

MinBullets == 1

MaxBullets == 10

MaxNameLen == 50

\* values of --bullets on the command line
BulletValues == (MinBullets - 2)..(MaxBullets + 2)

\* values of --topic in a whole run of the tool
RunTopics == { <<"a">>, <<"a", " ", "b">>, <<"A", "/", "B", "?">>, <<"?">> }

\* the character class of the pattern [<>:"/\\|?*]
UnsafeChars == {"<", ">", ":", "\"", "/", "\\", "|", "?", "*"}

\* re.sub(r'[<>:"/\\|?*]', '', s)
RECURSIVE RemoveUnsafe(_)
RemoveUnsafe(s) ==
    IF s = <<>> THEN <<>>
    ELSE IF Head(s) \in UnsafeChars THEN RemoveUnsafe(Tail(s))
    ELSE <<Head(s)>> \o RemoveUnsafe(Tail(s))

\* s.replace(' ', '_')
ReplaceSpaces(s) == [i \in 1..Len(s) |-> IF s[i] = " " THEN "_" ELSE s[i]]

\* variant: the slice is one character too long
PrefixOneMore(s, n) == SubSeq(s, 1, IF Len(s) < n + 1 THEN Len(s) ELSE n + 1)

\* s[:n]
Prefix(s, n) == SubSeq(s, 1, IF Len(s) < n THEN Len(s) ELSE n)

DefaultName == <<"r", "e", "s", "e", "a", "r", "c", "h">>

sanitize_filename(t) ==
    LET safe == Prefix(ReplaceSpaces(RemoveUnsafe(t)), MaxNameLen)
    IN IF safe = <<>> THEN DefaultName ELSE safe

Extension == <<".", "m", "d">>

Digit == <<"0", "1", "2", "3", "4", "5", "6", "7", "8", "9">>

RECURSIVE Decimal(_)
Decimal(n) ==
    IF n < 0 THEN <<"-">> \o Decimal(0 - n)
    ELSE IF n < 10 THEN <<Digit[n + 1]>>
    ELSE Decimal(n \div 10) \o <<Digit[(n % 10) + 1]>>

\* research_topic(), lines 97-110: the two turns sent
ResearchRequest(t, n) ==
    <<Turn("system", SystemPrompt), Turn("user", t \o <<"#">> \o Decimal(n))>>

\* variant: `and` in place of `or`
BulletsInRangeLoose(n) == ~(n < MinBullets /\ n > MaxBullets)

BulletsInRange(n) == ~(n < MinBullets \/ n > MaxBullets)

\* lines 32-42, run at import
ResearcherStartup ==
    /\ script = "cli_researcher"
    /\ pc = "start"
    /\ IF KeyMissing(api_key)
       THEN /\ pc' = "exited"
            /\ exit_code' = 1
            /\ reported' = reported \cup {"missing_credential"}
       ELSE /\ pc' = "main"
            /\ UNCHANGED <<exit_code, reported>>
    /\ UNCHANGED <<script, api_key>>
    /\ UNCHANGED chatVars
    /\ UNCHANGED researchVars

\* main(), lines 237-240
ValidateArgs ==
    /\ script = "cli_researcher"
    /\ pc = "main"
    /\ IF BulletsInRange(bullets)
       THEN /\ pc' = "mkdir"
            /\ UNCHANGED <<exit_code, reported>>
       ELSE /\ pc' = "exited"
            /\ exit_code' = 1
            /\ reported' = reported \cup {"bullets_range"}
    /\ UNCHANGED <<script, api_key>>
    /\ UNCHANGED chatVars
    /\ UNCHANGED researchVars

\* os.path.exists(args.output)
PathExists(d) == d # "missing"

\* main(), lines 242-244; os.makedirs succeeds (ok) or raises
MakeOutputDir(ok) ==
    /\ script = "cli_researcher"
    /\ pc = "mkdir"
    /\ IF ~print_only /\ ~PathExists(output_dir)
       THEN IF ok
            THEN /\ output_dir' = "created"
                 /\ pc' = "research"
                 /\ UNCHANGED <<exit_code, reported>>
            ELSE /\ pc' = "exited"
                 /\ exit_code' = 1
                 /\ reported' = reported \cup {"OSError"}
                 /\ UNCHANGED output_dir
       ELSE /\ pc' = "research"
            /\ UNCHANGED <<output_dir, exit_code, reported>>
    /\ UNCHANGED <<script, api_key, topic, bullets, print_only, safe_name, files>>
    /\ UNCHANGED chatVars

\* main() line 257 into research_topic(), lines 97-113
Research ==
    /\ script = "cli_researcher"
    /\ pc = "research"
    /\ request' = ResearchRequest(topic, bullets)
    /\ calls' = calls + 1
    /\ pc' = "calling"
    /\ UNCHANGED <<script, api_key, conversation_history, messages, full_response,
                   chunks, user_input, result, nOk, nFail, exit_code, reported>>
    /\ UNCHANGED researchVars

\* research_topic() returns message.content; main(), lines 259-269
ResearchReturn(content) ==
    /\ script = "cli_researcher"
    /\ pc = "calling"
    /\ result' = [kind |-> "ok", value |-> content]
    /\ nOk' = nOk + 1
    /\ IF content = None
       THEN /\ pc' = "exited"
            /\ exit_code' = 1
            /\ reported' = reported \cup {"failed"}
       ELSE /\ pc' = "save"
            /\ UNCHANGED <<exit_code, reported>>
    /\ UNCHANGED <<script, api_key, conversation_history, messages, full_response,
                   chunks, user_input, request, calls, nFail>>
    /\ UNCHANGED researchVars

\* research_topic() catches the exception and returns None; main(), lines 259-261
ResearchRaise ==
    /\ script = "cli_researcher"
    /\ pc = "calling"
    /\ result' = [kind |-> "error", value |-> <<>>]
    /\ nFail' = nFail + 1
    /\ pc' = "exited"
    /\ exit_code' = 1
    /\ reported' = reported \cup {"error", "failed"}
    /\ UNCHANGED <<script, api_key, conversation_history, messages, full_response,
                   chunks, user_input, request, calls, nOk>>
    /\ UNCHANGED researchVars

\* main(), lines 271-282, with save_to_markdown(); open() succeeds (ok) or raises
SaveResult(ok) ==
    /\ script = "cli_researcher"
    /\ pc = "save"
    /\ pc' = "exited"
    /\ IF print_only
       THEN /\ exit_code' = 0
            /\ UNCHANGED <<safe_name, files, reported>>
       ELSE /\ safe_name' = sanitize_filename(topic)
            /\ IF ok
               THEN /\ files' = files \cup {safe_name' \o Extension}
                    /\ exit_code' = 0
                    /\ UNCHANGED reported
               ELSE /\ exit_code' = 1
                    /\ reported' = reported \cup {"IOError"}
                    /\ UNCHANGED files
    /\ UNCHANGED <<script, api_key, topic, bullets, print_only, output_dir>>
    /\ UNCHANGED chatVars

\* sanitize_filename() applied on its own to a topic
Sanitize ==
    /\ script = "sanitize_filename"
    /\ pc = "start"
    /\ safe_name' = sanitize_filename(topic)
    /\ pc' = "exited"
    /\ UNCHANGED <<script, api_key, exit_code, reported, topic, bullets, print_only,
                   output_dir, files>>
    /\ UNCHANGED chatVars

----------------------------------------------------------------------------
(* Specifications *)

Idle ==
    /\ pc = "start"
    /\ conversation_history = <<>>
    /\ messages = <<>>
    /\ full_response = <<>>
    /\ chunks = <<>>
    /\ user_input = <<>>
    /\ request = <<>>
    /\ calls = 0
    /\ result = NoResult
    /\ nOk = 0
    /\ nFail = 0
    /\ exit_code = -1
    /\ reported = {}
    /\ safe_name = <<>>
    /\ files = {}

\* a run of one of the four scripts
Init ==
    /\ script \in Scripts
    /\ api_key \in KeyStates
    /\ Idle
    /\ IF script = "cli_researcher"
       THEN /\ topic \in RunTopics
            /\ bullets \in BulletValues
            /\ print_only \in BOOLEAN
            /\ output_dir \in {"missing", "present"}
       ELSE /\ topic = <<>>
            /\ bullets = 3
            /\ print_only = FALSE
            /\ output_dir = "present"

Outcomes == [kind : {"ok"}, value : ReplyTexts] \cup {[kind |-> "error", value |-> <<>>]}

Next ==
    \/ ChatbotStartup
    \/ \E raw \in RawInputs : ReadInput(raw)
    \/ ReadInputEOF
    \/ \E text \in ReplyTexts : ChatReturn(text)
    \/ ChatRaise
    \/ WebStartup
    \/ \E prompt \in WebPrompts : WebPrompt(prompt)
    \/ \E content \in ChunkTexts : WebChunk(content)
    \/ WebStreamEnd
    \/ WebStreamRaise
    \/ StartRun
    \/ \E outcome \in Outcomes : StartFinish(outcome)
    \/ ResearcherStartup
    \/ ValidateArgs
    \/ \E ok \in BOOLEAN : MakeOutputDir(ok)
    \/ Research
    \/ \E content \in ReplyTexts : ResearchReturn(content)
    \/ ResearchRaise
    \/ \E ok \in BOOLEAN : SaveResult(ok)

Spec == Init /\ [][Next]_vars

\* the characters a generated topic is made of
TopicChars == {"<", ">", ":", "\"", "/", "\\", "|", "?", "*", " ", "a", "_"}

Pad(n) == [i \in 1..n |-> "a"]

Cores == UNION {[1..n -> TopicChars] : n \in 0..MaxCore}

\* filler lengths: none, and those that bring a topic near the cap or past it
PadLens == {0} \cup {n \in 0..MaxPad : n + MaxCore + 1 >= MaxNameLen}

\* filler with the chosen characters inserted at any position
GeneratedTopics ==
    { SubSeq(x[1], 1, x[3]) \o Pad(x[2]) \o SubSeq(x[1], x[3] + 1, Len(x[1])) :
        x \in { y \in Cores \X PadLens \X (0..MaxCore) : y[3] <= Len(y[1]) } }

InitSanitize ==
    /\ script = "sanitize_filename"
    /\ api_key = "set"
    /\ Idle
    /\ topic \in GeneratedTopics
    /\ bullets = 3
    /\ print_only = FALSE
    /\ output_dir = "present"

NextSanitize == Sanitize

SpecSanitize == InitSanitize /\ [][NextSanitize]_vars

----------------------------------------------------------------------------
(* Properties of the two chatbots *)

IsChat == script \in {"simple_chatbot", "web_chatbot"}

\* the conversation store of the running chatbot
History == IF script = "web_chatbot" THEN messages ELSE conversation_history

Seeded(h) == IF Len(h) > 0 /\ h[1].role = "system" THEN 1 ELSE 0

\* 1 while a completion call is in flight
Pending == IF pc \in {"calling", "streaming"} THEN 1 ELSE 0

Last(h) == h[Len(h)]

Alternates(h) ==
    \A i \in (Seeded(h) + 1)..Len(h) :
        h[i].role = IF (i - Seeded(h)) % 2 = 1 THEN "user" ELSE "assistant"

\* C1: every exchange adds one user turn and, when it returns, one assistant
\* turn: the history holds the seed, two turns per returned exchange, one per
\* raised exchange and one for an exchange in flight; in a session whose
\* exchanges all returned that is seed + 2N turns once the N-th has returned,
\* and the roles after the seed alternate user, assistant.
ExchangeCount ==
    IsChat =>
        /\ Len(History) = Seeded(History) + 2 * nOk + nFail + Pending
        /\ nFail = 0 /\ Pending = 0 =>
              /\ Len(History) = Seeded(History) + 2 * nOk
              /\ Alternates(History)

ExchangeCountWitness ==
    /\ IsChat
    /\ nFail = 0
    /\ Pending = 0
    /\ nOk = 2
    /\ Len(History) = 5
    /\ History[5].role = "assistant"

\* C2: a step that makes a completion call appends the user turn and passes
\* the whole history, in order, with that user turn last.
FullHistorySent ==
    [][IsChat /\ calls' # calls =>
          /\ History' = Append(History, Turn("user", user_input'))
          /\ request' = History']_vars

FullHistorySentWitness ==
    /\ IsChat
    /\ Pending = 1
    /\ Len(request) = 4
    /\ request = History
    /\ request[4] = Turn("user", user_input)
    /\ request[3].role = "assistant"

\* C3: a step in which the completion call fails leaves the history as it
\* was, ending with the user turn of this exchange; no call is made again
\* and the caller gets an error result.
FailureKeepsUserTurn ==
    [][IsChat /\ nFail' # nFail =>
          /\ History' = History
          /\ Last(History') = Turn("user", user_input)
          /\ calls' = calls
          /\ Pending' = 0
          /\ result'.kind = "error"
          /\ "error" \in reported']_vars

FailureKeepsUserTurnWitness ==
    /\ IsChat
    /\ Pending = 0
    /\ nFail = 1
    /\ result.kind = "error"
    /\ Len(History) = 4
    /\ Last(History) = Turn("user", user_input)


\* text with nothing but whitespace in it, or no text at all
Blank(s) == s = None \/ \A i \in 1..Len(s) : s[i] \in Whitespace

HistoryUntouched == History' = History /\ calls' = calls /\ request' = request

\* C4 as stated: input that is empty, or empty once stripped, is rejected by
\* both chatbots: the history is not changed and no completion call is made.
BlankInputRejected ==
    [][/\ \A raw \in RawInputs : Blank(raw) /\ ReadInput(raw) => HistoryUntouched
       /\ \A prompt \in WebPrompts : Blank(prompt) /\ WebPrompt(prompt) => HistoryUntouched]_vars

\* C4, amended: the terminal chatbot rejects a line that is empty once
\* stripped; the web chatbot rejects an absent or empty prompt only, and
\* appends and sends a prompt made of whitespace.
EmptyInputRejected ==
    [][/\ \A raw \in RawInputs : Blank(raw) /\ ReadInput(raw) => HistoryUntouched
       /\ \A prompt \in WebPrompts :
             WebPrompt(prompt) =>
                 IF ~Truthy(prompt) THEN HistoryUntouched
                 ELSE /\ History' = Append(History, Turn("user", prompt))
                      /\ calls' = calls + 1]_vars

EmptyInputRejectedWitness ==
    /\ script = "simple_chatbot"
    /\ pc = "input"
    /\ calls = 1
    /\ user_input = <<>>
    /\ Len(History) = 3

\* C5: a non-empty history starts with a system turn, and no other turn of
\* it is a system turn.
SystemTurnFirst ==
    IsChat =>
        /\ Len(History) > 0 => History[1].role = "system"
        /\ \A i \in 2..Len(History) : History[i].role # "system"

SystemTurnFirstWitness ==
    /\ IsChat
    /\ Len(History) = 4
    /\ History[1] = Turn("system", SystemPrompt)
    /\ nFail = 1

\* C6: once an exchange has returned, the history ends with an assistant
\* turn of non-empty content, which is the value handed to the caller.
ReplyNonEmpty ==
    IsChat /\ result.kind = "ok" /\ Pending = 0 =>
        /\ Last(History).role = "assistant"
        /\ Last(History).content = result.value
        /\ Truthy(Last(History).content)

----------------------------------------------------------------------------
(* Properties of the research tool *)

IsResearcher == script = "cli_researcher" /\ api_key = "set"

ValidBullets == bullets \in 1..10

Rejected ==
    /\ pc = "exited"
    /\ exit_code = 1
    /\ "bullets_range" \in reported

OutOfRangeRejected ==
    ~ValidBullets =>
        /\ calls = 0
        /\ files = {}
        /\ output_dir # "created"
        /\ pc \notin {"start", "main"} => Rejected

Count(s, c) == Cardinality({i \in 1..Len(s) : s[i] = c})

\* C8: the name sanitize_filename returns holds none of < > : " / \ | ? *
\* and no space, is at most 50 characters long, and carries an underscore
\* for every space of a topic that fits the cap.
SafeName ==
    script = "sanitize_filename" /\ pc = "exited" =>
        /\ \A i \in 1..Len(safe_name) :
              safe_name[i] \notin {"<", ">", ":", "\"", "/", "\\", "|", "?", "*", " "}
        /\ Len(safe_name) <= 50
        /\ Len(safe_name) > 0
        /\ Len(topic) <= 50 =>
              Count(safe_name, "_") = Count(topic, " ") + Count(topic, "_")

SafeNameWitness ==
    /\ script = "sanitize_filename"
    /\ pc = "exited"
    /\ Len(topic) = 52
    /\ topic[1] = " "
    /\ topic[52] = "?"
    /\ Len(safe_name) = 50
    /\ safe_name[1] = "_"

\* C9: with the credential absent, each command-line script ends with
\* status 1 on its first step, having reported the missing credential, and
\* never makes a completion call.
MissingCredentialFatal ==
    script \in {"simple_chatbot", "cli_researcher", "start"} /\ api_key = "absent" =>
        /\ calls = 0
        /\ pc # "start" =>
              /\ pc = "exited"
              /\ exit_code = 1
              /\ "missing_credential" \in reported

MissingCredentialFatalWitness ==
    /\ script = "cli_researcher"
    /\ api_key = "absent"
    /\ pc = "exited"
    /\ exit_code = 1
    /\ calls = 0
    /\ reported = {"missing_credential"}

RECURSIVE JoinFragments(_)
JoinFragments(cs) ==
    IF cs = <<>> THEN <<>>
    ELSE (IF Head(cs) = None THEN <<>> ELSE Head(cs)) \o JoinFragments(Tail(cs))

\* C10: while a stream is being read the history ends with the user turn of
\* the exchange, as it was sent; the assistant turn is appended in the step
\* that ends the stream, and holds the non-null fragments received, joined
\* in order; a stream that fails leaves the history without it.
StreamCommit ==
    [][script = "web_chatbot" =>
          /\ pc' = "streaming" =>
                /\ messages' = request'
                /\ Last(messages').role = "user"
          /\ messages' # messages /\ Last(messages').role = "assistant" =>
                /\ pc = "streaming"
                /\ pc' = "idle"
                /\ messages' = Append(messages, Turn("assistant", JoinFragments(chunks)))
          /\ nFail' # nFail =>
                /\ messages' = messages
                /\ Last(messages').role = "user"]_vars

StreamCommitWitness ==
    /\ script = "web_chatbot"
    /\ pc = "idle"
    /\ result.kind = "ok"
    /\ Last(messages) = Turn("assistant", <<"r", "s">>)


\* the lines that main() takes for the 'history' command
HistoryLines == {raw \in RawInputs : Lower(Strip(raw)) = HistoryCommand}

IsPrefix(s, t) == Len(s) <= Len(t) /\ SubSeq(t, 1, Len(s)) = s

\* C11: every step of a chatbot, whichever it is (an exchange sent, returned
\* or failed, a stream fragment, an empty line, a quit, the 'history'
\* command), leaves the history it found as a prefix of the history it
\* leaves; the 'history' command leaves the history as it was and makes no call.
AppendOnly ==
    [][IsChat =>
          /\ IsPrefix(History, History')
          /\ pc = "input" =>
                \A raw \in HistoryLines :
                    ReadInput(raw) => History' = History /\ calls' = calls]_vars

AppendOnlyWitness ==
    /\ script = "simple_chatbot"
    /\ pc = "input"
    /\ user_input = HistoryCommand
    /\ nOk = 1
    /\ nFail = 1
    /\ Len(History) = 4

====
